---- MODULE Spec2Model ----
(***************************************************************************)
(* A model of peersignal-server: the room registry (server/rooms.js), the  *)
(* per-socket RPC methods and disconnect hook (server/index.js) and the    *)
(* code functions (server/codes.js), the rate limiter                      *)
(* (server/rate-limit.js) and the idle timer of each socket                *)
(* (server/index.js) and the admin view's data (server/admin.js).          *)
(*                                                                         *)
(* The server is a single-threaded Node.js process: every RPC method and   *)
(* every disconnect hook runs to completion, so each is one atomic action. *)
(*                                                                         *)
(* A socket is identified by its id (socket.io ids are unique and never    *)
(* reused), so room.hostSocket and room.hostId are one field here, hostId, *)
(* and a peer entry {socket, name}, whose socket is always the socket of   *)
(* the key it is stored under, is its name.  socket.join / socket.leave    *)
(* change only the transport's channel table, which no code of the         *)
(* repository reads; they are not modelled.                                *)
(***************************************************************************)
EXTENDS Integers, Sequences, FiniteSets, Bags, TLC

VARIABLES
    rooms,          \* rooms.js `rooms`: code -> room
    socketToRoom,   \* rooms.js `socketToRoom`: socket.id -> {code, isHost}
    roomsPerIp,     \* index.js `roomsPerIp`: ip -> count
    sockets,        \* transport: socket.id -> "open" | "closed" (socket.connected)
    steps,          \* the number of requests and disconnects handled so far
    call,           \* the request the last action handled
    reply,          \* the value the last action returned to its caller
    emitted,        \* the events the last action emitted (a bag)
    idleTimer,      \* index.js `idleTimer`: socket.id -> the time left before the
                    \* timeout fires, or Cleared
    sinceRpc,       \* history: socket.id -> the time since the socket's last
                    \* inbound RPC (since its connection when it sent none),
                    \* counted up to idleTimeoutMs
    now,            \* Date.now()
    requests,       \* RateLimiter `requests`: key -> {count, resetTime}
    granted,        \* history: key -> the times at which isAllowed(key) returned true
    limiterRet,     \* the last RateLimiter call and the value it returned
    adminView,      \* the body of the last response to GET /admin/api/stats
    codeCall,       \* the last call of a function of codes.js, its argument and
                    \* the value it returned
    admission,      \* history: the <<peer, room code>> pairs for which a
                    \* peer:request, and a peer:approved, has been emitted
    draw            \* createRoom's do-while loop: the socket whose call is in
                    \* the loop (or None), the code drawn last and the number
                    \* of draws that were repeated

registryVars == <<rooms, socketToRoom, roomsPerIp, sockets, steps, call, reply, emitted>>
timerVars == <<idleTimer, sinceRpc>>
limiterVars == <<now, requests, granted, limiterRet>>

vars == <<rooms, socketToRoom, roomsPerIp, sockets, steps, call, reply, emitted,
          idleTimer, sinceRpc, now, requests, granted, limiterRet, adminView, codeCall,
          admission, draw>>

-----------------------------------------------------------------------------
(* Characters and codes.  A code is a sequence of one-character strings.   *)

LowerSeq == <<"a","b","c","d","e","f","g","h","i","j","k","l","m",
              "n","o","p","q","r","s","t","u","v","w","x","y","z">>
UpperSeq == <<"A","B","C","D","E","F","G","H","I","J","K","L","M",
              "N","O","P","Q","R","S","T","U","V","W","X","Y","Z">>
DigitSeq == <<"0","1","2","3","4","5","6","7","8","9">>

Range(s) == {s[i] : i \in DOMAIN s}

Lowers == Range(LowerSeq)
Digits == Range(DigitSeq)
Spaces == {" "}

\* String.prototype.toLowerCase on one character
ToLowerChar(c) ==
    IF \E i \in DOMAIN UpperSeq : UpperSeq[i] = c
    THEN LowerSeq[CHOOSE i \in DOMAIN UpperSeq : UpperSeq[i] = c]
    ELSE c

\* normalizeCode without its .toLowerCase()
ToLowerCaseMissing(s) == s

ToLowerCase(s) == [i \in DOMAIN s |-> ToLowerChar(s[i])]

\* .replace(/[0o]/g, 'o')
ReplaceZeroO(s) == [i \in DOMAIN s |-> IF s[i] \in {"0", "o"} THEN "o" ELSE s[i]]

\* .replace(/[1il]/g, 'l')
ReplaceOneIL(s) == [i \in DOMAIN s |-> IF s[i] \in {"1", "i", "l"} THEN "l" ELSE s[i]]

\* .replace(/\s+/g, '-'): every maximal run of whitespace becomes one hyphen
RECURSIVE ReplaceSpaces(_)
ReplaceSpaces(s) ==
    IF s = <<>> THEN <<>>
    ELSE IF Head(s) \in Spaces
         THEN IF Len(s) > 1 /\ s[2] \in Spaces
              THEN ReplaceSpaces(Tail(s))
              ELSE <<"-">> \o ReplaceSpaces(Tail(s))
         ELSE <<Head(s)>> \o ReplaceSpaces(Tail(s))

\* String.prototype.trim
RECURSIVE TrimLeft(_)
TrimLeft(s) == IF s # <<>> /\ Head(s) \in Spaces THEN TrimLeft(Tail(s)) ELSE s

RECURSIVE TrimRight(_)
TrimRight(s) ==
    IF s # <<>> /\ s[Len(s)] \in Spaces THEN TrimRight(SubSeq(s, 1, Len(s) - 1)) ELSE s

Trim(s) == TrimRight(TrimLeft(s))

normalizeCode(code) ==
    Trim(ReplaceSpaces(ReplaceOneIL(ReplaceZeroO(ToLowerCase(code)))))

\* /^[a-z0-9]{3}-[a-z0-9]{3}-[a-z0-9]{3}$/
MatchesShape(s) ==
    /\ Len(s) = 11
    /\ \A i \in 1..11 : IF i \in {4, 8} THEN s[i] = "-" ELSE s[i] \in Lowers \cup Digits

validateCode(code) == MatchesShape(normalizeCode(code))

\* const CHARS = 'abcdefghjkmnpqrstuvwxyz23456789'
CHARS == <<"a","b","c","d","e","f","g","h","j","k","m","n","p","q","r","s",
           "t","u","v","w","x","y","z","2","3","4","5","6","7","8","9">>

\* The codes generateCode can return: segment()-segment()-segment()
IsGenerated(s) ==
    /\ Len(s) = 11
    /\ \A i \in 1..11 : IF i \in {4, 8} THEN s[i] = "-" ELSE s[i] \in Range(CHARS)

\* Array.from({ length: 3 }, () => CHARS[Math.floor(Math.random() * CHARS.length)]),
\* `floors` being the three values of Math.floor(...): JavaScript indexes
\* from 0
segment(floors) == [i \in 1..3 |-> CHARS[floors[i] + 1]]

\* generateCode drawing its characters from all of a-z and 0-9
generateCodeFromAlphanumerics(floors) ==
    LET all == LowerSeq \o DigitSeq
    IN  [i \in 1..11 |-> IF i \in {4, 8} THEN "-"
                          ELSE all[floors[i - (i \div 4)] + 1]]

\* generateCode(), `floors` being the nine values of Math.floor(...) it draws
generateCode(floors) ==
    segment(SubSeq(floors, 1, 3)) \o <<"-">> \o segment(SubSeq(floors, 4, 6))
        \o <<"-">> \o segment(SubSeq(floors, 7, 9))

\* joinRoom of index.js, up to its look-up of the room: the key it asks the
\* registry for, and whether it goes on to ask
joinRoomLookup(code) ==
    LET normalized == normalizeCode(code)
    IN  [normalized |-> normalized, valid |-> validateCode(normalized)]

\* A call of a function of codes.js
CodeCall(op, floors, input, output, valid) ==
    [op |-> op, floors |-> floors, input |-> input, output |-> output, valid |-> valid]

NoCodeCall == CodeCall("init", <<>>, <<>>, <<>>, FALSE)

-----------------------------------------------------------------------------
(* The sockets, codes and inputs the model draws from.                     *)

\* The sockets whose handshake the connection limiter has let through
Conns == {"c1", "c2", "c3"}

\* The number of requests and disconnects a behaviour of the model handles
MaxSteps == 5

\* getClientIp(socket): fixed at the handshake (socket.clientIp)
clientIp(socket) == IF socket = "c2" THEN "ip2" ELSE "ip1"

Ips == {clientIp(c) : c \in Conns}

\* The values Math.random lets generateCode return in this model
GenCodes == { <<"k","7","m","-","p","2","x","-","9","n","f">>,
              <<"a","b","c","-","d","e","f","-","2","3","4">> }

\* The codes a client may send: the issued ones, one of them in upper case,
\* and a malformed one
InputCodes == GenCodes \cup
    { <<"K","7","M","-","P","2","X","-","9","N","F">>,
      <<"x","y">> }

\* The display name a client sends with joinRoom and rejoinRoom ("" when it
\* sends none): one per client
clientName(socket) == IF socket = "c1" THEN "" ELSE IF socket = "c2" THEN "Al" ELSE "Bo"

\* normalizeCode and validateCode on the codes of the model, computed once
CodeInputs == InputCodes \cup {normalizeCode(c) : c \in InputCodes}
NormalizedCode[c \in CodeInputs] == normalizeCode(c)
ValidCode[c \in CodeInputs] == validateCode(c)

\* The runs of values Math.floor(Math.random() * CHARS.length) takes in a
\* call of generateCode: from any first value, in steps of 0..MaxStride
\* around 0..30
MaxStride == 1

RandomFloors ==
    {[j \in 1..9 |-> (first + (j - 1) * stride) % Len(CHARS)] :
        first \in 0..(Len(CHARS) - 1), stride \in 0..MaxStride}

GeneratedCodes == {generateCode(floors) : floors \in RandomFloors}

\* Ways a client may write a code
ToUpperChar(c) ==
    IF \E i \in DOMAIN LowerSeq : LowerSeq[i] = c
    THEN UpperSeq[CHOOSE i \in DOMAIN LowerSeq : LowerSeq[i] = c]
    ELSE c
UpperCase(s) == [i \in DOMAIN s |-> ToUpperChar(s[i])]
MixedCase(s) == [i \in DOMAIN s |-> IF i % 2 = 1 THEN ToUpperChar(s[i]) ELSE s[i]]
Padded(s) == <<" ", " ">> \o s \o <<" ", " ">>
SpacedGroups(s) == SubSeq(s, 1, 3) \o <<" ">> \o SubSeq(s, 5, 7) \o <<" ", " ">>
                       \o SubSeq(s, 9, 11)
Writings(s) == {s, UpperCase(s), MixedCase(s), Padded(s), SpacedGroups(s)}

\* Codes mistyped with 0, 1, i, l and o, and malformed strings
Mistyped ==
    { <<"k","0","m","-","p","1","x","-","9","i","f">>,
      <<"O","L","a","-","b","c","d","-","e","f","g">>,
      <<"a","b","c","d","-","e","f","g","h","-","i","j","k","l">>,
      <<"a","b","c","-","d","e","f">>,
      <<"a","b","c">>,
      <<"-","a","b","c","-","d","e","f","-","g","h","j","-">>,
      <<" ">>,
      <<>> }

\* The strings a client may send once it has been given `code`
ClientStrings(code) == Writings(code) \cup Mistyped

ApprovedInputs == {"true", "false", "undefined"}

Payloads == {"sdp", "huge"}

\* CONFIG (index.js), as set by MAX_PENDING_PER_ROOM=2, MAX_ROOMS_PER_IP=1
\* and the default MAX_PAYLOAD_SIZE
maxPendingPerRoom == 2
maxRoomsPerIp == 1
maxPayloadSize == 16384

\* CONFIG.idleTimeoutMs, as set by IDLE_TIMEOUT_MS=2
idleTimeoutMs == 2

\* The keys the limiters are asked about (remote addresses, socket ids)
Keys == {"k1", "k2"}

\* The options the RateLimiter of the model is constructed with
windowMs == 2
maxRequests == 2

\* The last instant of the clock of the model
MaxTime == 4

\* The number of requests and disconnects a behaviour of the model with
\* idle timers handles
MaxIdleSteps == 2

\* The number of requests and disconnects handled in a run with the admin view
MaxAdminSteps == 3

\* The requests of a behaviour of DrawSpec, and the most repeated draws that
\* are counted
MaxDrawSteps == 3
MaxRedraws == 2

\* JSON.stringify(payload).length
PayloadSize(payload) == IF payload = "huge" THEN 16385 ELSE 5

None == "none"
NoCode == <<>>

-----------------------------------------------------------------------------
(* Maps, events and replies.                                               *)

MapSet(m, k, v) == [x \in DOMAIN m \cup {k} |-> IF x = k THEN v ELSE m[x]]
MapDelete(m, k) == [x \in DOMAIN m \ {k} |-> m[x]]
MapDeleteAll(m, ks) == [x \in DOMAIN m \ ks |-> m[x]]
EmptyMap == <<>>

\* socket.emit(event, data) on the socket `to`
Event(to, event, peerId, name, hostId, from, payload) ==
    [to |-> to, event |-> event, peerId |-> peerId, name |-> name,
     hostId |-> hostId, from |-> from, payload |-> payload]

PeerRequest(to, peerId, name) == Event(to, "peer:request", peerId, name, None, None, None)
PeerApproved(to, hostId) == Event(to, "peer:approved", None, None, hostId, None, None)
PeerDenied(to) == Event(to, "peer:denied", None, None, None, None, None)
HostDisconnected(to) == Event(to, "host:disconnected", None, None, None, None, None)
HostReconnected(to, hostId) == Event(to, "host:reconnected", None, None, hostId, None, None)
PeerDisconnected(to, peerId) == Event(to, "peer:disconnected", peerId, None, None, None, None)
Signal(to, from, payload) == Event(to, "signal", None, None, None, from, payload)

Emit(ev) == SetToBag({ev})

\* The number of events the last action emitted to socket `to` with name `event`
Received(to, event) ==
    LET S == {e \in BagToSet(emitted) : e.to = to /\ e.event = event}
        RECURSIVE Sum(_)
        Sum(T) == IF T = {} THEN 0
                  ELSE LET e == CHOOSE x \in T : TRUE IN CopiesIn(e, emitted) + Sum(T \ {e})
    IN Sum(S)

NoReply ==
    [error |-> "", success |-> FALSE, denied |-> FALSE, code |-> NoCode,
     peerId |-> None, hostConnected |-> FALSE, peers |-> {}, iceServers |-> FALSE]

Error(msg) == [NoReply EXCEPT !.error = msg]

\* The RPC method (or "disconnect") the last action ran, and its socket
Call(op, socket) == [op |-> op, socket |-> socket]

NoCall == Call("init", None)

\* The record of a RateLimiter call: `allowed` is what isAllowed returned,
\* `remaining` what getRemainingRequests returned
LimiterCall(op, key, allowed, remaining) ==
    [op |-> op, key |-> key, allowed |-> allowed, remaining |-> remaining]

NoLimiterCall == LimiterCall("init", None, FALSE, 0)

-----------------------------------------------------------------------------
(* server/rooms.js.  Each function is an operator on the current state     *)
(* that yields the state it leaves, the events it emits and its return     *)
(* value.                                                                  *)

Result(r, s2r, ev, ret) ==
    [rooms |-> r, socketToRoom |-> s2r, emitted |-> ev, reply |-> ret]

Unchanged(ret) == Result(rooms, socketToRoom, EmptyBag, ret)

\* `creator` is a history field: the socket that created the room.  No code
\* reads it.
NewRoom(socket) ==
    [hostId |-> socket, pendingPeers |-> EmptyMap, approvedPeers |-> EmptyMap,
     creator |-> socket]

\* createRoom(socket), `code` being the value its do-while loop ends with
createRoom(socket, code) ==
    Result(MapSet(rooms, code, NewRoom(socket)),
           MapSet(socketToRoom, socket, [code |-> code, isHost |-> TRUE]),
           EmptyBag,
           [NoReply EXCEPT !.code = code])

\* joinRoom reporting the host as connected whatever its socket's state
joinRoomHostAlwaysConnected(socket, code, name) ==
    IF code \notin DOMAIN rooms
    THEN Unchanged(Error("Room not found"))
    ELSE LET room == rooms[code]
             peerId == socket
         IN Result(
              [rooms EXCEPT ![code].pendingPeers = MapSet(room.pendingPeers, peerId, name)],
              MapSet(socketToRoom, socket, [code |-> code, isHost |-> FALSE]),
              Emit(PeerRequest(room.hostId, peerId, name)),
              [NoReply EXCEPT !.success = TRUE, !.peerId = peerId,
                              !.hostConnected = TRUE])

joinRoom(socket, code, name) ==
    IF code \notin DOMAIN rooms
    THEN Unchanged(Error("Room not found"))
    ELSE LET room == rooms[code]
             peerId == socket
         IN Result(
              [rooms EXCEPT ![code].pendingPeers = MapSet(room.pendingPeers, peerId, name)],
              MapSet(socketToRoom, socket, [code |-> code, isHost |-> FALSE]),
              Emit(PeerRequest(room.hostId, peerId, name)),
              [NoReply EXCEPT !.success = TRUE, !.peerId = peerId,
                              !.hostConnected = (sockets[room.hostId] = "open")])

\* approvePeer taking any socket that has an index entry for a host
approvePeerAnyMember(hostSocket, peerId, approved) ==
    IF hostSocket \notin DOMAIN socketToRoom
    THEN Unchanged(Error("Not a host"))
    ELSE LET roomInfo == socketToRoom[hostSocket] IN
         IF roomInfo.code \notin DOMAIN rooms
         THEN Unchanged(Error("Room not found"))
         ELSE LET room == rooms[roomInfo.code] IN
              IF peerId \notin DOMAIN room.pendingPeers
              THEN Unchanged(Error("Peer not found in pending"))
              ELSE LET pending == room.pendingPeers[peerId]
                       deleted == MapDelete(room.pendingPeers, peerId)
                   IN IF approved
                      THEN Result(
                             [rooms EXCEPT ![roomInfo.code].pendingPeers = deleted,
                                           ![roomInfo.code].approvedPeers =
                                               MapSet(room.approvedPeers, peerId, pending)],
                             socketToRoom,
                             Emit(PeerApproved(peerId, room.hostId)),
                             [NoReply EXCEPT !.success = TRUE])
                      ELSE Result(
                             [rooms EXCEPT ![roomInfo.code].pendingPeers = deleted],
                             MapDelete(socketToRoom, peerId),
                             Emit(PeerDenied(peerId)),
                             [NoReply EXCEPT !.success = TRUE, !.denied = TRUE])

\* approvePeer with a deny branch that keeps the peer's index entry
approvePeerDenyKeepsIndex(hostSocket, peerId, approved) ==
    IF hostSocket \notin DOMAIN socketToRoom \/ ~socketToRoom[hostSocket].isHost
    THEN Unchanged(Error("Not a host"))
    ELSE LET roomInfo == socketToRoom[hostSocket] IN
         IF roomInfo.code \notin DOMAIN rooms
         THEN Unchanged(Error("Room not found"))
         ELSE LET room == rooms[roomInfo.code] IN
              IF peerId \notin DOMAIN room.pendingPeers
              THEN Unchanged(Error("Peer not found in pending"))
              ELSE LET pending == room.pendingPeers[peerId]
                       deleted == MapDelete(room.pendingPeers, peerId)
                   IN IF approved
                      THEN Result(
                             [rooms EXCEPT ![roomInfo.code].pendingPeers = deleted,
                                           ![roomInfo.code].approvedPeers =
                                               MapSet(room.approvedPeers, peerId, pending)],
                             socketToRoom,
                             Emit(PeerApproved(peerId, room.hostId)),
                             [NoReply EXCEPT !.success = TRUE])
                      ELSE Result(
                             [rooms EXCEPT ![roomInfo.code].pendingPeers = deleted],
                             socketToRoom,
                             Emit(PeerDenied(peerId)),
                             [NoReply EXCEPT !.success = TRUE, !.denied = TRUE])

approvePeer(hostSocket, peerId, approved) ==
    IF hostSocket \notin DOMAIN socketToRoom \/ ~socketToRoom[hostSocket].isHost
    THEN Unchanged(Error("Not a host"))
    ELSE LET roomInfo == socketToRoom[hostSocket] IN
         IF roomInfo.code \notin DOMAIN rooms
         THEN Unchanged(Error("Room not found"))
         ELSE LET room == rooms[roomInfo.code] IN
              IF peerId \notin DOMAIN room.pendingPeers
              THEN Unchanged(Error("Peer not found in pending"))
              ELSE LET pending == room.pendingPeers[peerId]
                       deleted == MapDelete(room.pendingPeers, peerId)
                   IN IF approved
                      THEN Result(
                             [rooms EXCEPT ![roomInfo.code].pendingPeers = deleted,
                                           ![roomInfo.code].approvedPeers =
                                               MapSet(room.approvedPeers, peerId, pending)],
                             socketToRoom,
                             Emit(PeerApproved(peerId, room.hostId)),
                             [NoReply EXCEPT !.success = TRUE])
                      ELSE Result(
                             [rooms EXCEPT ![roomInfo.code].pendingPeers = deleted],
                             MapDelete(socketToRoom, peerId),
                             Emit(PeerDenied(peerId)),
                             [NoReply EXCEPT !.success = TRUE, !.denied = TRUE])

\* The socket signal() resolves toId to, or None
TargetSocket(room, toId) ==
    IF toId = room.hostId THEN room.hostId
    ELSE IF toId \in DOMAIN room.approvedPeers THEN toId
    ELSE None

\* signal broadcasting to the host and every approved peer of the room
signalToRoom(fromSocket, toId, payload) ==
    IF fromSocket \notin DOMAIN socketToRoom
    THEN Unchanged(Error("Not in a room"))
    ELSE LET roomInfo == socketToRoom[fromSocket] IN
         IF roomInfo.code \notin DOMAIN rooms
         THEN Unchanged(Error("Room not found"))
         ELSE LET room == rooms[roomInfo.code]
                  isHost == room.hostId = fromSocket
                  isApproved == fromSocket \in DOMAIN room.approvedPeers
                  targetSocket == TargetSocket(room, toId)
              IN IF ~isHost /\ ~isApproved
                 THEN Unchanged(Error("Not authorized to signal"))
                 ELSE IF targetSocket = None
                 THEN Unchanged(Error("Target not found"))
                 ELSE Result(rooms, socketToRoom,
                             SetToBag({Signal(t, fromSocket, payload) :
                                          t \in DOMAIN room.approvedPeers \cup {room.hostId}}),
                             [NoReply EXCEPT !.success = TRUE])

signal(fromSocket, toId, payload) ==
    IF fromSocket \notin DOMAIN socketToRoom
    THEN Unchanged(Error("Not in a room"))
    ELSE LET roomInfo == socketToRoom[fromSocket] IN
         IF roomInfo.code \notin DOMAIN rooms
         THEN Unchanged(Error("Room not found"))
         ELSE LET room == rooms[roomInfo.code]
                  isHost == room.hostId = fromSocket
                  isApproved == fromSocket \in DOMAIN room.approvedPeers
                  targetSocket == TargetSocket(room, toId)
              IN IF ~isHost /\ ~isApproved
                 THEN Unchanged(Error("Not authorized to signal"))
                 ELSE IF targetSocket = None
                 THEN Unchanged(Error("Target not found"))
                 ELSE Result(rooms, socketToRoom,
                             Emit(Signal(targetSocket, fromSocket, payload)),
                             [NoReply EXCEPT !.success = TRUE])

\* The events of handleDisconnect's host branch: one per entry of
\* approvedPeers, then one per entry of pendingPeers
HostDisconnectedEvents(room) ==
    SetToBag({HostDisconnected(p) : p \in DOMAIN room.approvedPeers})
    (+) SetToBag({HostDisconnected(p) : p \in DOMAIN room.pendingPeers})

handleDisconnect(socket) ==
    IF socket \notin DOMAIN socketToRoom
    THEN Unchanged(NoReply)
    ELSE LET roomInfo == socketToRoom[socket] IN
         IF roomInfo.code \notin DOMAIN rooms
         THEN Unchanged(NoReply)
         ELSE LET room == rooms[roomInfo.code] IN
              IF roomInfo.isHost
              THEN Result(
                     MapDelete(rooms, roomInfo.code),
                     MapDeleteAll(socketToRoom,
                         DOMAIN room.approvedPeers \cup DOMAIN room.pendingPeers
                             \cup {socket}),
                     HostDisconnectedEvents(room),
                     NoReply)
              ELSE Result(
                     [rooms EXCEPT
                        ![roomInfo.code].pendingPeers = MapDelete(room.pendingPeers, socket),
                        ![roomInfo.code].approvedPeers = MapDelete(room.approvedPeers, socket)],
                     MapDelete(socketToRoom, socket),
                     Emit(PeerDisconnected(room.hostId, socket)),
                     NoReply)

\* rejoinRoom with a host branch that also notifies the pending peers
rejoinRoomNotifiesPending(socket, code, isHost, name) ==
    IF code \notin DOMAIN rooms
    THEN Unchanged(Error("Room not found"))
    ELSE LET room == rooms[code] IN
         IF isHost
         THEN Result(
                [rooms EXCEPT ![code].hostId = socket],
                MapSet(socketToRoom, socket, [code |-> code, isHost |-> TRUE]),
                SetToBag({HostReconnected(p, socket) :
                             p \in DOMAIN room.approvedPeers \cup DOMAIN room.pendingPeers}),
                [NoReply EXCEPT !.success = TRUE, !.code = code,
                    !.peers = {[id |-> p, name |-> room.approvedPeers[p]] :
                                  p \in DOMAIN room.approvedPeers}])
         ELSE joinRoom(socket, code, name)

\* The events of rejoinRoom's host branch: one per entry of approvedPeers
HostReconnectedEvents(room, hostId) ==
    SetToBag({HostReconnected(p, hostId) : p \in DOMAIN room.approvedPeers})

rejoinRoom(socket, code, isHost, name) ==
    IF code \notin DOMAIN rooms
    THEN Unchanged(Error("Room not found"))
    ELSE LET room == rooms[code] IN
         IF isHost
         THEN Result(
                [rooms EXCEPT ![code].hostId = socket],
                MapSet(socketToRoom, socket, [code |-> code, isHost |-> TRUE]),
                HostReconnectedEvents(room, socket),
                [NoReply EXCEPT !.success = TRUE, !.code = code,
                    !.peers = {[id |-> p, name |-> room.approvedPeers[p]] :
                                  p \in DOMAIN room.approvedPeers}])
         ELSE joinRoom(socket, code, name)

-----------------------------------------------------------------------------
(* server/index.js: the RPC methods of one socket and its disconnect hook. *)
(* A rate limiter's answer depends on the clock and on the requests of the *)
(* current window; here it is an input of the request (`allowed`).         *)

WithIp(res, perIp) ==
    [rooms |-> res.rooms, socketToRoom |-> res.socketToRoom, emitted |-> res.emitted,
     reply |-> res.reply, roomsPerIp |-> perIp]

Refused(msg) == WithIp(Unchanged(Error(msg)), roomsPerIp)

\* roomsPerIp.get(ip) || dflt
IpRoomCount(ip, dflt) ==
    IF ip \in DOMAIN roomsPerIp /\ roomsPerIp[ip] # 0 THEN roomsPerIp[ip] ELSE dflt

\* method_createRoom counting the room for the IP before the cap is checked
method_createRoomCountsRefused(socket, allowed, code) ==
    LET ip == clientIp(socket)
        ipRoomCount == IpRoomCount(ip, 0)
    IN IF ~allowed
       THEN Refused("Too many rooms created. Please try again later.")
       ELSE IF ipRoomCount >= maxRoomsPerIp
       THEN WithIp(Unchanged(Error("Maximum N rooms per IP reached.")),
                   MapSet(roomsPerIp, ip, ipRoomCount + 1))
       ELSE LET result == createRoom(socket, code)
            IN WithIp([result EXCEPT !.reply.iceServers = TRUE],
                      MapSet(roomsPerIp, ip, ipRoomCount + 1))

method_createRoom(socket, allowed, code) ==
    LET ip == clientIp(socket)
        ipRoomCount == IpRoomCount(ip, 0)
    IN IF ~allowed
       THEN Refused("Too many rooms created. Please try again later.")
       ELSE IF ipRoomCount >= maxRoomsPerIp
       THEN Refused("Maximum N rooms per IP reached.")
       ELSE LET result == createRoom(socket, code)
            IN WithIp([result EXCEPT !.reply.iceServers = TRUE],
                      MapSet(roomsPerIp, ip, ipRoomCount + 1))

\* name || 'Anonymous'
NameOrAnonymous(name) == IF name = "" THEN "Anonymous" ELSE name

method_joinRoom(socket, allowed, code, name) ==
    LET normalized == NormalizedCode[code]
    IN IF ~allowed
       THEN Refused("Too many join attempts. Please try again later.")
       ELSE IF ~ValidCode[normalized]
       THEN Refused("Invalid code format")
       ELSE IF /\ normalized \in DOMAIN rooms
               /\ Cardinality(DOMAIN rooms[normalized].pendingPeers) >= maxPendingPerRoom
       THEN Refused("Room has too many pending requests. Please try again later.")
       ELSE LET result == joinRoom(socket, normalized, NameOrAnonymous(name))
            IN IF result.reply.success
               THEN WithIp([result EXCEPT !.reply.iceServers = TRUE], roomsPerIp)
               ELSE WithIp(result, roomsPerIp)

method_rejoinRoom(socket, code, isHost, name) ==
    LET normalized == NormalizedCode[code]
    IN WithIp(rejoinRoom(socket, normalized, isHost, NameOrAnonymous(name)), roomsPerIp)

\* approved !== false
NotFalse(approved) == approved # "false"

method_approvePeer(socket, peerId, approved) ==
    WithIp(approvePeer(socket, peerId, NotFalse(approved)), roomsPerIp)

method_signal(socket, allowed, to, payload) ==
    IF ~allowed
    THEN Refused("Too many signals. Please slow down.")
    ELSE IF PayloadSize(payload) > maxPayloadSize
    THEN Refused("Payload too large.")
    ELSE WithIp(signal(socket, to, payload), roomsPerIp)

\* socket.on('disconnect', ...)
onDisconnect(socket) ==
    LET ip == clientIp(socket)
        \* rooms.getRoomBySocket(socket)?.isHost
        isHost == socket \in DOMAIN socketToRoom /\ socketToRoom[socket].isHost
        count == IpRoomCount(ip, 1)
        perIp == IF ~isHost THEN roomsPerIp
                 ELSE IF count <= 1 THEN MapDelete(roomsPerIp, ip)
                 ELSE MapSet(roomsPerIp, ip, count - 1)
    IN WithIp(handleDisconnect(socket), perIp)

\* getIceServers: () => ({ iceServers: ICE_SERVERS })
method_getIceServers(socket) ==
    WithIp(Unchanged([NoReply EXCEPT !.iceServers = TRUE]), roomsPerIp)

-----------------------------------------------------------------------------
(* server/index.js: the idle timer of a socket.  A timer is the time left  *)
(* before its callback is due, or Cleared (no time at all) once it has     *)
(* been cleared or has fired.                                              *)

Cleared == -1

\* setTimeout(..., CONFIG.idleTimeoutMs), at the connection
armedTimer == idleTimeoutMs

\* clearTimeout(idleTimer); idleTimer = setTimeout(..., CONFIG.idleTimeoutMs)
resetIdleTimer(socket) == [idleTimer EXCEPT ![socket] = idleTimeoutMs]

\* A disconnect hook that leaves the timer armed
clearTimeoutMissing(socket) == idleTimer

\* clearTimeout(idleTimer), in the disconnect hook
clearTimeout(socket) == [idleTimer EXCEPT ![socket] = Cleared]

\* Whether a method of `methods` begins with resetIdleTimer()
ResetsIdleTimer(op) == op \in {"createRoom", "joinRoom", "rejoinRoom", "approvePeer", "signal"}

\* The idle timer of `socket` once a request for the method `op` is handled
timerAfter(op, socket) == IF ResetsIdleTimer(op) THEN resetIdleTimer(socket) ELSE idleTimer

-----------------------------------------------------------------------------
(* server/rate-limit.js: class RateLimiter.  Each method is an operator on *)
(* the current `requests` and clock that yields the map it leaves and its  *)
(* return value.                                                           *)

LimiterResult(reqs, ret) == [requests |-> reqs, ret |-> ret]

\* isAllowed refusing only when count > maxRequests
isAllowedOffByOne(key) ==
    IF key \notin DOMAIN requests \/ now > requests[key].resetTime
    THEN LimiterResult(MapSet(requests, key, [count |-> 1, resetTime |-> now + windowMs]),
                       TRUE)
    ELSE IF requests[key].count > maxRequests
    THEN LimiterResult(requests, FALSE)
    ELSE LimiterResult([requests EXCEPT ![key].count = @ + 1], TRUE)

\* isAllowed pushing the reset time forward on every allowed call
isAllowedSlidingReset(key) ==
    IF key \notin DOMAIN requests \/ now > requests[key].resetTime
    THEN LimiterResult(MapSet(requests, key, [count |-> 1, resetTime |-> now + windowMs]),
                       TRUE)
    ELSE IF requests[key].count >= maxRequests
    THEN LimiterResult(requests, FALSE)
    ELSE LimiterResult([requests EXCEPT ![key] = [count |-> @.count + 1,
                                                   resetTime |-> now + windowMs]], TRUE)

\* isAllowed keeping one bucket for all keys: opening a bucket drops the others
isAllowedSharedBucket(key) ==
    IF key \notin DOMAIN requests \/ now > requests[key].resetTime
    THEN LimiterResult(MapSet(EmptyMap, key, [count |-> 1, resetTime |-> now + windowMs]),
                       TRUE)
    ELSE IF requests[key].count >= maxRequests
    THEN LimiterResult(requests, FALSE)
    ELSE LimiterResult([requests EXCEPT ![key].count = @ + 1], TRUE)

isAllowed(key) ==
    IF key \notin DOMAIN requests \/ now > requests[key].resetTime
    THEN LimiterResult(MapSet(requests, key, [count |-> 1, resetTime |-> now + windowMs]),
                       TRUE)
    ELSE IF requests[key].count >= maxRequests
    THEN LimiterResult(requests, FALSE)
    ELSE LimiterResult([requests EXCEPT ![key].count = @ + 1], TRUE)

\* Math.max(0, a)
Max0(a) == IF a > 0 THEN a ELSE 0

\* getRemainingRequests without the test of the window's expiry
getRemainingRequestsIgnoresExpiry(key) ==
    IF key \notin DOMAIN requests
    THEN LimiterResult(requests, maxRequests)
    ELSE LimiterResult(requests, Max0(maxRequests - requests[key].count))

getRemainingRequests(key) ==
    IF key \notin DOMAIN requests \/ now > requests[key].resetTime
    THEN LimiterResult(requests, maxRequests)
    ELSE LimiterResult(requests, Max0(maxRequests - requests[key].count))

\* cleanup deleting a bucket from the instant of its reset time on
cleanupAtResetTime ==
    LimiterResult(
        MapDeleteAll(requests, {key \in DOMAIN requests : now >= requests[key].resetTime}),
        None)

cleanup ==
    LimiterResult(
        MapDeleteAll(requests, {key \in DOMAIN requests : now > requests[key].resetTime}),
        None)

-----------------------------------------------------------------------------
(* server/admin.js: the data of the admin view.  createdAt and age, which  *)
(* hold the wall clock only, are left out of an entry.                     *)

\* The names rooms.js exports: `import * as rooms from './rooms.js'`
RoomsExports == {"createRoom", "joinRoom", "approvePeer", "signal", "handleDisconnect",
                 "rejoinRoom", "getRoom", "getRoomBySocket"}

\* rooms.getAllRooms ? rooms.getAllRooms() : new Map()
\* (a getAllRooms of rooms.js would return its `rooms`)
allRooms == IF "getAllRooms" \in RoomsExports THEN rooms ELSE EmptyMap

RoomEntry(code, room) ==
    [code |-> code,
     hostConnected |-> sockets[room.hostId] = "open",
     pendingCount |-> Cardinality(DOMAIN room.pendingPeers),
     approvedCount |-> Cardinality(DOMAIN room.approvedPeers)]

\* for (const [code, room] of allRooms) roomsData.push({...})
RECURSIVE PushEntries(_, _)
PushEntries(all, codes) ==
    IF codes = {} THEN <<>>
    ELSE LET code == CHOOSE c \in codes : TRUE
         IN  <<RoomEntry(code, all[code])>> \o PushEntries(all, codes \ {code})

getRoomsData == PushEntries(allRooms, DOMAIN allRooms)

\* roomsData.reduce((sum, r) => sum + r[field], 0)
RECURSIVE Reduce(_, _)
Reduce(roomsData, field) ==
    IF roomsData = <<>> THEN 0
    ELSE Head(roomsData)[field] + Reduce(Tail(roomsData), field)

\* rooms.js exports no getStats: the totals are computed from getRoomsData()
getStats ==
    [totalRooms |-> Len(getRoomsData),
     totalPending |-> Reduce(getRoomsData, "pendingCount"),
     totalApproved |-> Reduce(getRoomsData, "approvedCount")]

\* { ...stats, rooms: roomsData }
getStatsJson ==
    [totalRooms |-> getStats.totalRooms,
     totalPending |-> getStats.totalPending,
     totalApproved |-> getStats.totalApproved,
     rooms |-> getRoomsData]

\* No response sent yet
NoAdminView == [totalRooms |-> 0, totalPending |-> 0, totalApproved |-> 0, rooms |-> <<>>]

-----------------------------------------------------------------------------
(* The state machine.                                                      *)

NoAdmission == [requested |-> {}, approved |-> {}]

NoDraw == [socket |-> None, code |-> NoCode, redraws |-> 0]

Init ==
    /\ rooms = EmptyMap
    /\ socketToRoom = EmptyMap
    /\ roomsPerIp = EmptyMap
    /\ sockets = [c \in Conns |-> "open"]
    /\ steps = 0
    /\ call = NoCall
    /\ reply = NoReply
    /\ emitted = EmptyBag
    /\ idleTimer = [c \in Conns |-> armedTimer]
    /\ sinceRpc = [c \in Conns |-> 0]
    /\ now = 0
    /\ requests = EmptyMap
    /\ granted = [key \in Keys |-> <<>>]
    /\ limiterRet = NoLimiterCall
    /\ adminView = NoAdminView
    /\ codeCall = NoCodeCall
    /\ admission = NoAdmission
    /\ draw = NoDraw

Apply(res) ==
    /\ rooms' = res.rooms
    /\ socketToRoom' = res.socketToRoom
    /\ roomsPerIp' = res.roomsPerIp
    /\ reply' = res.reply
    /\ steps' = steps + 1
    /\ emitted' = res.emitted
    /\ UNCHANGED limiterVars
    /\ UNCHANGED <<adminView, codeCall>>

EventsNamed(event) == {e \in BagToSet(emitted') : e.event = event}

\* while (rooms.has(code))
redrawNever(code) == FALSE

redraw(code) == code \in DOMAIN rooms

\* The history after the step that ran a method for `socket`: joinRoom emits
\* peer:request for the room its caller's index entry then names,
\* approvePeer emits peer:approved for the room its caller's entry names
Admission(socket) ==
    [requested |-> admission.requested \cup
         {<<e.peerId, socketToRoom'[e.peerId].code>> : e \in EventsNamed("peer:request")},
     approved |-> admission.approved \cup
         {<<e.to, socketToRoom[socket].code>> : e \in EventsNamed("peer:approved")}]

\* socket.on('rpc', ...): a request for the method `op` arrives on `socket`
Inbound(op, socket) ==
    /\ call' = Call(op, socket)
    /\ idleTimer' = timerAfter(op, socket)
    /\ sinceRpc' = [sinceRpc EXCEPT ![socket] = 0]
    /\ admission' = Admission(socket)
    /\ UNCHANGED <<sockets, draw>>

CreateRoom(socket, allowed, code) ==
    /\ steps < MaxSteps
    /\ sockets[socket] = "open"
    /\ code \notin DOMAIN rooms      \* do { code = generateCode() } while (rooms.has(code))
    /\ Apply(method_createRoom(socket, allowed, code))
    /\ Inbound("createRoom", socket)

JoinRoom(socket, allowed, code, name) ==
    /\ steps < MaxSteps
    /\ sockets[socket] = "open"
    /\ Apply(method_joinRoom(socket, allowed, code, name))
    /\ Inbound("joinRoom", socket)

RejoinRoom(socket, code, isHost, name) ==
    /\ steps < MaxSteps
    /\ sockets[socket] = "open"
    /\ Apply(method_rejoinRoom(socket, code, isHost, name))
    /\ Inbound("rejoinRoom", socket)

ApprovePeer(socket, peerId, approved) ==
    /\ steps < MaxSteps
    /\ sockets[socket] = "open"
    /\ Apply(method_approvePeer(socket, peerId, approved))
    /\ Inbound("approvePeer", socket)

SignalRpc(socket, allowed, to, payload) ==
    /\ steps < MaxSteps
    /\ sockets[socket] = "open"
    /\ Apply(method_signal(socket, allowed, to, payload))
    /\ Inbound("signal", socket)

\* socket.on('disconnect', ...) runs for `socket`
DisconnectHook(socket) ==
    /\ Apply(onDisconnect(socket))
    /\ sockets' = [sockets EXCEPT ![socket] = "closed"]
    /\ call' = Call("disconnect", socket)
    /\ idleTimer' = clearTimeout(socket)
    /\ UNCHANGED <<sinceRpc, admission, draw>>

\* The client, or the transport, closes the socket
Disconnect(socket) ==
    /\ steps < MaxSteps
    /\ sockets[socket] = "open"
    /\ DisconnectHook(socket)

Next ==
    \/ \E socket \in Conns, allowed \in BOOLEAN, code \in GenCodes :
          CreateRoom(socket, allowed, code)
    \/ \E socket \in Conns, allowed \in BOOLEAN, code \in InputCodes :
          JoinRoom(socket, allowed, code, clientName(socket))
    \/ \E socket \in Conns, code \in InputCodes, isHost \in BOOLEAN :
          RejoinRoom(socket, code, isHost, clientName(socket))
    \/ \E socket \in Conns, peerId \in Conns, approved \in ApprovedInputs :
          ApprovePeer(socket, peerId, approved)
    \/ \E socket \in Conns, to \in Conns, payload \in Payloads, allowed \in BOOLEAN :
          SignalRpc(socket, allowed, to, payload)
    \/ \E socket \in Conns : Disconnect(socket)

Spec == Init /\ [][Next]_vars

-----------------------------------------------------------------------------
(* The server with time: the requests of Next as the limiters let them     *)
(* through, getIceServers, the passing of time and the idle timers.        *)

GetIceServers(socket) ==
    /\ steps < MaxSteps
    /\ sockets[socket] = "open"
    /\ Apply(method_getIceServers(socket))
    /\ Inbound("getIceServers", socket)

\* One unit of time passes.  A timer that is due fires before more time
\* passes.
IdleTick ==
    /\ \A c \in Conns : idleTimer[c] # 0
    /\ \E c \in Conns : idleTimer[c] # Cleared
    /\ idleTimer' = [c \in Conns |->
                        IF idleTimer[c] = Cleared THEN Cleared ELSE idleTimer[c] - 1]
    /\ sinceRpc' = [c \in Conns |->
                       IF sockets[c] = "open" /\ sinceRpc[c] < idleTimeoutMs
                       THEN sinceRpc[c] + 1 ELSE sinceRpc[c]]
    /\ UNCHANGED <<rooms, socketToRoom, roomsPerIp, sockets, steps, call, reply, emitted,
                   now, requests, granted, limiterRet, adminView, codeCall, admission,
                   draw>>

\* The idle timer of `socket` fires: socket.disconnect(true), which runs the
\* disconnect hook of a connected socket and does nothing to a closed one
IdleTimeout(socket) ==
    /\ idleTimer[socket] = 0
    /\ IF sockets[socket] = "open"
       THEN DisconnectHook(socket)
       ELSE /\ idleTimer' = [idleTimer EXCEPT ![socket] = Cleared]
            /\ UNCHANGED <<rooms, socketToRoom, roomsPerIp, sockets, steps, call, reply,
                           emitted, sinceRpc, now, requests, granted, limiterRet,
                           adminView, codeCall, admission, draw>>

IdleNext ==
    \/ \E socket \in Conns, code \in GenCodes :
          steps < MaxIdleSteps /\ CreateRoom(socket, TRUE, code)
    \/ \E socket \in Conns, code \in GenCodes :
          steps < MaxIdleSteps /\ JoinRoom(socket, TRUE, code, clientName(socket))
    \/ \E socket \in Conns, code \in GenCodes, isHost \in BOOLEAN :
          steps < MaxIdleSteps /\ RejoinRoom(socket, code, isHost, clientName(socket))
    \/ \E socket \in Conns, peerId \in Conns, approved \in ApprovedInputs :
          steps < MaxIdleSteps /\ ApprovePeer(socket, peerId, approved)
    \/ \E socket \in Conns, to \in Conns :
          steps < MaxIdleSteps /\ SignalRpc(socket, TRUE, to, "sdp")
    \/ \E socket \in Conns : steps < MaxIdleSteps /\ GetIceServers(socket)
    \/ \E socket \in Conns : steps < MaxIdleSteps /\ Disconnect(socket)
    \/ IdleTick
    \/ \E socket \in Conns : IdleTimeout(socket)

\* Time passes and a due timer fires: Node's event loop runs the callback of
\* every timer that is due
IdleSpec ==
    /\ Init
    /\ [][IdleNext]_vars
    /\ WF_vars(IdleTick)
    /\ \A socket \in Conns : WF_vars(IdleTimeout(socket))

-----------------------------------------------------------------------------
(* The registry with the admin view: the requests of Next, and the admin   *)
(* endpoint answering at any moment between two of them.                   *)

\* GET /admin/api/stats, authenticated: res.end(JSON.stringify(getStatsJson()))
AdminStats ==
    /\ adminView' = getStatsJson
    /\ call' = Call("GET /admin/api/stats", None)
    /\ UNCHANGED <<rooms, socketToRoom, roomsPerIp, sockets, steps, reply, emitted>>
    /\ UNCHANGED timerVars
    /\ UNCHANGED limiterVars
    /\ UNCHANGED <<codeCall, admission, draw>>

AdminNext ==
    \/ \E socket \in Conns, code \in GenCodes :
          steps < MaxAdminSteps /\ CreateRoom(socket, TRUE, code)
    \/ \E socket \in Conns, code \in GenCodes :
          steps < MaxAdminSteps /\ JoinRoom(socket, TRUE, code, clientName(socket))
    \/ \E socket \in Conns, code \in GenCodes, isHost \in BOOLEAN :
          steps < MaxAdminSteps /\ RejoinRoom(socket, code, isHost, clientName(socket))
    \/ \E socket \in Conns, peerId \in Conns, approved \in ApprovedInputs :
          steps < MaxAdminSteps /\ ApprovePeer(socket, peerId, approved)
    \/ \E socket \in Conns, to \in Conns :
          steps < MaxAdminSteps /\ SignalRpc(socket, TRUE, to, "sdp")
    \/ \E socket \in Conns : steps < MaxAdminSteps /\ Disconnect(socket)
    \/ AdminStats

AdminSpec == Init /\ [][AdminNext]_vars

-----------------------------------------------------------------------------
(* The functions of codes.js on their own, and joinRoom's resolution of    *)
(* the code it is given: a code is generated, then a string a client may   *)
(* send for it is normalized, validated or resolved.                       *)

\* The strings a client may send for the code just generated
Typed == IF codeCall.op = "generateCode" THEN ClientStrings(codeCall.output) ELSE {}

\* The functions of codes.js read and write no state of the server
CodeFrame ==
    /\ UNCHANGED registryVars
    /\ UNCHANGED timerVars
    /\ UNCHANGED limiterVars
    /\ UNCHANGED <<adminView, admission, draw>>

GenerateCode(floors) ==
    /\ codeCall' = CodeCall("generateCode", floors, <<>>, generateCode(floors), FALSE)
    /\ CodeFrame

NormalizeCode(input) ==
    /\ codeCall' = CodeCall("normalizeCode", <<>>, input, normalizeCode(input), FALSE)
    /\ CodeFrame

ValidateCode(input) ==
    /\ codeCall' = CodeCall("validateCode", <<>>, input, <<>>, validateCode(input))
    /\ CodeFrame

JoinRoomLookup(input) ==
    /\ codeCall' = CodeCall("joinRoom", <<>>, input, joinRoomLookup(input).normalized,
                            joinRoomLookup(input).valid)
    /\ CodeFrame

CodesNext ==
    \/ \E floors \in RandomFloors : GenerateCode(floors)
    \/ \E input \in Typed : NormalizeCode(input)
    \/ \E input \in Typed : ValidateCode(input)
    \/ \E input \in Typed : JoinRoomLookup(input)

CodesSpec == Init /\ [][CodesNext]_vars

-----------------------------------------------------------------------------
(* createRoom with its loop: a createRoom request that passes the limiter  *)
(* and the per-IP cap enters rooms.createRoom's do-while loop, and each    *)
(* draw of generateCode() is a step.  No other handler runs while the loop *)
(* does (one thread).  A draw yields any code: Math.random() is fair, so   *)
(* a draw of an unused code, while there is one, cannot be put off for     *)
(* ever.                                                                   *)

\* The method up to the call of rooms.createRoom
BeginCreateRoom(socket, allowed) ==
    /\ steps < MaxDrawSteps
    /\ sockets[socket] = "open"
    /\ draw.socket = None
    /\ IF ~allowed \/ IpRoomCount(clientIp(socket), 0) >= maxRoomsPerIp
       THEN /\ Apply(method_createRoom(socket, allowed, NoCode))
            /\ UNCHANGED draw
       ELSE /\ draw' = [socket |-> socket, code |-> NoCode, redraws |-> 0]
            /\ reply' = NoReply
            /\ emitted' = EmptyBag
            /\ UNCHANGED <<rooms, socketToRoom, roomsPerIp, steps>>
            /\ UNCHANGED limiterVars
            /\ UNCHANGED <<adminView, codeCall>>
    /\ call' = Call("createRoom", socket)
    /\ idleTimer' = timerAfter("createRoom", socket)
    /\ sinceRpc' = [sinceRpc EXCEPT ![socket] = 0]
    /\ UNCHANGED <<sockets, admission>>

\* One iteration: code = generateCode(), then the loop's test; the rest of
\* rooms.createRoom and of the method when the loop ends
Draw(code) ==
    /\ draw.socket # None
    /\ IF redraw(code)
       THEN /\ draw' = [draw EXCEPT !.code = code,
                                    !.redraws = IF @ < MaxRedraws THEN @ + 1 ELSE @]
            /\ UNCHANGED <<rooms, socketToRoom, roomsPerIp, steps, reply, emitted>>
            /\ UNCHANGED limiterVars
            /\ UNCHANGED <<adminView, codeCall>>
       ELSE /\ Apply(method_createRoom(draw.socket, TRUE, code))
            /\ draw' = [draw EXCEPT !.socket = None, !.code = code]
    /\ UNCHANGED <<sockets, call, idleTimer, sinceRpc, admission>>

\* generateCode() returns a code the registry does not hold
DrawUnused == \E code \in GenCodes \ DOMAIN rooms : Draw(code)

DrawNext ==
    \/ \E socket \in Conns, allowed \in BOOLEAN : BeginCreateRoom(socket, allowed)
    \/ \E code \in GenCodes : Draw(code)
    \/ \E socket \in Conns, code \in GenCodes :
          /\ steps < MaxDrawSteps
          /\ draw.socket = None
          /\ JoinRoom(socket, TRUE, code, clientName(socket))
    \/ \E socket \in Conns, peerId \in Conns :
          /\ steps < MaxDrawSteps
          /\ draw.socket = None
          /\ ApprovePeer(socket, peerId, "true")
    \/ \E socket \in Conns :
          /\ steps < MaxDrawSteps
          /\ draw.socket = None
          /\ Disconnect(socket)

DrawSpec == Init /\ [][DrawNext]_vars /\ WF_vars(DrawUnused)

-----------------------------------------------------------------------------
(* The rate limiter on its own: calls of its methods for any key, at any   *)
(* instant of the clock.                                                   *)

ApplyLimiter(res) ==
    /\ requests' = res.requests
    /\ UNCHANGED <<now, rooms, socketToRoom, roomsPerIp, sockets, steps, call, reply,
                   emitted, idleTimer, sinceRpc, adminView, codeCall, admission, draw>>

IsAllowed(key) ==
    /\ ApplyLimiter(isAllowed(key))
    /\ limiterRet' = LimiterCall("isAllowed", key, isAllowed(key).ret, 0)
    /\ granted' = IF isAllowed(key).ret
                  THEN [granted EXCEPT ![key] = Append(@, now)]
                  ELSE granted

GetRemainingRequests(key) ==
    /\ ApplyLimiter(getRemainingRequests(key))
    /\ limiterRet' = LimiterCall("getRemainingRequests", key, FALSE,
                                 getRemainingRequests(key).ret)
    /\ UNCHANGED granted

\* setInterval(() => { ...cleanup() }, 60 * 1000)
Cleanup ==
    /\ ApplyLimiter(cleanup)
    /\ limiterRet' = LimiterCall("cleanup", None, FALSE, 0)
    /\ UNCHANGED granted

\* The clock advances
Tick ==
    /\ now < MaxTime
    /\ now' = now + 1
    /\ UNCHANGED <<requests, granted, limiterRet, rooms, socketToRoom, roomsPerIp,
                   sockets, steps, call, reply, emitted, idleTimer, sinceRpc, adminView,
                   codeCall, admission, draw>>

LimiterNext ==
    \/ \E key \in Keys : IsAllowed(key)
    \/ \E key \in Keys : GetRemainingRequests(key)
    \/ Cleanup
    \/ Tick

LimiterSpec == Init /\ [][LimiterNext]_vars

-----------------------------------------------------------------------------
(* Vocabulary of the properties.                                           *)

Pending(code) == DOMAIN rooms[code].pendingPeers
Approved(code) == DOMAIN rooms[code].approvedPeers
Members(code) == Pending(code) \cup Approved(code) \cup {rooms[code].hostId}

\* The ids that are host or approved peer of the room `code`
HostOrApproved(code) == Approved(code) \cup {rooms[code].hostId}

-----------------------------------------------------------------------------
\* C1: Membership disjointness.  In every reachable state, for every room,
\* the keys of pendingPeers and of approvedPeers are disjoint and hostId is
\* a key of neither.
C1_MembershipDisjoint ==
    \A code \in DOMAIN rooms :
        /\ Pending(code) \cap Approved(code) = {}
        /\ rooms[code].hostId \notin Pending(code) \cup Approved(code)

\* C2: Connection index consistency.  In every reachable state, a socket id
\* has an entry in socketToRoom iff it is the hostId, a pending key or an
\* approved key of the room the entry names, and every id that appears in a
\* room has an entry that names that room.
C2_IndexConsistent ==
    /\ \A c \in DOMAIN socketToRoom :
          /\ socketToRoom[c].code \in DOMAIN rooms
          /\ c \in Members(socketToRoom[c].code)
    /\ \A code \in DOMAIN rooms : \A c \in Members(code) :
          c \in DOMAIN socketToRoom /\ socketToRoom[c].code = code

\* C3: Signal authorization.  signal(c, t, p) emits a `signal` event to the
\* target iff c is the host or an approved peer of a room of which t is the
\* host or an approved peer; a target that is only pending in the sender's
\* room gets nothing and the sender is told 'Target not found'.
SameRoomAuthorized(c, t) ==
    \E code \in DOMAIN rooms : c \in HostOrApproved(code) /\ t \in HostOrApproved(code)

C3_SignalAuthorization ==
    [][\A c \in Conns, t \in Conns, p \in Payloads :
        (/\ call' = Call("signal", c)
         /\ PayloadSize(p) <= maxPayloadSize
         /\ SignalRpc(c, TRUE, t, p)) =>
            /\ (Received(t, "signal")' >= 1) <=> SameRoomAuthorized(c, t)
            /\ \A code \in DOMAIN rooms :
                  (/\ c \in DOMAIN socketToRoom /\ socketToRoom[c].code = code
                   /\ c \in HostOrApproved(code)
                   /\ t \in Pending(code) \ HostOrApproved(code)) =>
                      reply'.error = "Target not found" /\ emitted' = EmptyBag]_vars

\* C4: The host is the sole admission authority.  An id becomes a key of a
\* room's approvedPeers only by approvePeer(id, true) called by the socket
\* that is the room's hostId at the time of the call, and only when the id
\* is a key of the room's pendingPeers.
C4_HostSoleAuthority ==
    [][\A code \in DOMAIN rooms' : \A p \in DOMAIN rooms'[code].approvedPeers :
        \/ code \in DOMAIN rooms /\ p \in Approved(code)
        \/ /\ code \in DOMAIN rooms
           /\ call' = Call("approvePeer", rooms[code].hostId)
           /\ p \in Pending(code)
           /\ reply'.success /\ ~reply'.denied]_vars

\* C5: Unauthorized sender.  When a socket that is pending, and not approved,
\* in the room its index entry names calls signal, the call returns
\* 'Not authorized to signal' and emits nothing, whatever the target.
PendingInItsRoom(c) ==
    /\ c \in DOMAIN socketToRoom
    /\ socketToRoom[c].code \in DOMAIN rooms
    /\ c \in Pending(socketToRoom[c].code) \ Approved(socketToRoom[c].code)

C5_PendingSenderRefused ==
    [][\A c \in Conns, t \in Conns, p \in Payloads :
        (/\ call' = Call("signal", c)
         /\ PendingInItsRoom(c)
         /\ PayloadSize(p) <= maxPayloadSize
         /\ SignalRpc(c, TRUE, t, p)) =>
            reply'.error = "Not authorized to signal" /\ emitted' = EmptyBag]_vars

\* C6: Room destruction on host disconnect.  Once the disconnect of a room's
\* host (its hostId) has been handled, the room is gone from `rooms` and no
\* socket that was pending or approved in it has an index entry; a joinRoom
\* or a rejoinRoom(isHost = true) with a code that names no room returns
\* 'Room not found'.
C6_HostDisconnectDestroysRoom ==
    [][/\ \A s \in Conns : call' = Call("disconnect", s) =>
            \A code \in DOMAIN rooms : rooms[code].hostId = s =>
                /\ code \notin DOMAIN rooms'
                /\ \A p \in Pending(code) \cup Approved(code) :
                      p \notin DOMAIN socketToRoom'
       /\ \A s \in Conns, code \in InputCodes :
            (/\ call'.socket = s
             /\ ValidCode[code] /\ NormalizedCode[code] \notin DOMAIN rooms
             /\ \/ JoinRoom(s, TRUE, code, clientName(s))
                \/ RejoinRoom(s, code, TRUE, clientName(s))) =>
                reply'.error = "Room not found"]_vars

\* C7: Exactly-once host-down notification.  When a room's host disconnects,
\* every socket that was pending or approved in the room is sent
\* host:disconnected exactly once, and host:disconnected is sent to no socket
\* outside the room of a host that disconnects.
C7_HostDownExactlyOnce ==
    [][/\ \A s \in Conns : call' = Call("disconnect", s) =>
            \A code \in DOMAIN rooms : rooms[code].hostId = s =>
                \A p \in Pending(code) \cup Approved(code) :
                    Received(p, "host:disconnected")' = 1
       /\ \A e \in BagToSet(emitted') : e.event = "host:disconnected" =>
            /\ call'.op = "disconnect"
            /\ \E code \in DOMAIN rooms :
                  /\ rooms[code].hostId = call'.socket
                  /\ e.to \in Pending(code) \cup Approved(code)]_vars

\* C8: Rejoin preserves peers.  rejoinRoom(code, isHost = true) on a room that
\* exists leaves the room's approvedPeers unchanged, makes the calling socket
\* its host, and emits host:reconnected with the new host id exactly once to
\* each approved peer of the room and to no one else.
C8_RejoinPreservesPeers ==
    [][\A socket \in Conns, code \in InputCodes :
        LET room == NormalizedCode[code] IN
        (/\ call' = Call("rejoinRoom", socket)
         /\ room \in DOMAIN rooms
         /\ RejoinRoom(socket, code, TRUE, clientName(socket))) =>
            /\ room \in DOMAIN rooms'
            /\ rooms'[room].approvedPeers = rooms[room].approvedPeers
            /\ rooms'[room].hostId = socket
            /\ \A p \in Conns :
                  Received(p, "host:reconnected")' = IF p \in Approved(room) THEN 1 ELSE 0
            /\ \A e \in BagToSet(emitted') :
                  e.event = "host:reconnected" /\ e.hostId = socket]_vars

\* A host rejoin has just succeeded on a room with an approved peer, which
\* was sent host:reconnected.
C8_Witness ==
    /\ call.op = "rejoinRoom"
    /\ reply.success
    /\ reply.code \in DOMAIN rooms
    /\ rooms[reply.code].hostId = call.socket
    /\ Approved(reply.code) # {}
    /\ \E p \in Approved(reply.code) : Received(p, "host:reconnected") = 1

\* C9: Pending cap.  No room ever holds more than maxPendingPerRoom pending
\* peers.
C9_PendingCap ==
    \A code \in DOMAIN rooms : Cardinality(Pending(code)) <= maxPendingPerRoom

\* C10: Per-IP room cap.  At no time do more than maxRoomsPerIp rooms exist
\* that were created from the same remote IP.
RoomsCreatedFrom(ip) == {code \in DOMAIN rooms : clientIp(rooms[code].creator) = ip}

C10_RoomsPerIpCap ==
    \A ip \in Ips : Cardinality(RoomsCreatedFrom(ip)) <= maxRoomsPerIp

-----------------------------------------------------------------------------
\* The number of times isAllowed(key) returned true at an instant of from..to
GrantsIn(key, from, to) ==
    Cardinality({i \in DOMAIN granted[key] : granted[key][i] \in from..to})

\* C11 (as stated): Rate-limiter invariant.  For every key and every interval
\* of width windowMs, wherever it starts, isAllowed(key) returns true at most
\* maxRequests times within the interval.  The interval is taken half-open,
\* [t, t + windowMs), its narrowest reading.
C11_AnyWindow ==
    \A key \in Keys : \A t \in 0..MaxTime :
        GrantsIn(key, t, t + windowMs - 1) <= maxRequests

\* C11 (amended): for every key, isAllowed(key) returns true at most
\* maxRequests times within one window of the key's bucket (from the call
\* that opens the bucket to its resetTime), and so at most
\* 2 * maxRequests - 1 times within any interval of width windowMs (taken
\* closed, [t, t + windowMs], its widest reading): the call that opens a
\* bucket is one of its maxRequests, and no interval of that width holds it
\* together with a call of the next bucket.
C11_FixedWindow ==
    \A key \in Keys :
        /\ key \in DOMAIN requests =>
              /\ requests[key].count <= maxRequests
              /\ GrantsIn(key, requests[key].resetTime - windowMs, requests[key].resetTime)
                     = requests[key].count
        /\ \A t \in 0..MaxTime : GrantsIn(key, t, t + windowMs) <= 2 * maxRequests - 1

\* A key has been allowed 2 * maxRequests - 1 times within an interval of
\* width windowMs, and is refused now.
C11_Witness ==
    \E key \in Keys :
        /\ limiterRet = LimiterCall("isAllowed", key, FALSE, 0)
        /\ \E t \in 0..MaxTime : GrantsIn(key, t, t + windowMs - 1) = 2 * maxRequests - 1

-----------------------------------------------------------------------------
\* The RPC methods that change the registry or emit events
MutatingRpcs == {"createRoom", "joinRoom", "approvePeer", "signal", "rejoinRoom"}

\* The step handles a request whose method asked a rate limiter, which
\* answered true
AllowedByLimiter ==
    \E socket \in Conns :
        \/ /\ call' = Call("createRoom", socket)
           /\ \E code \in GenCodes : CreateRoom(socket, TRUE, code)
        \/ /\ call' = Call("joinRoom", socket)
           /\ \E code \in InputCodes : JoinRoom(socket, TRUE, code, clientName(socket))
        \/ /\ call' = Call("signal", socket)
           /\ \E to \in Conns, payload \in Payloads : SignalRpc(socket, TRUE, to, payload)

\* The step handles a request whose method asked a rate limiter, which
\* answered false
RefusedByLimiter ==
    \E socket \in Conns :
        \/ /\ call' = Call("createRoom", socket)
           /\ \E code \in GenCodes : CreateRoom(socket, FALSE, code)
        \/ /\ call' = Call("joinRoom", socket)
           /\ \E code \in InputCodes : JoinRoom(socket, FALSE, code, clientName(socket))
        \/ /\ call' = Call("signal", socket)
           /\ \E to \in Conns, payload \in Payloads : SignalRpc(socket, FALSE, to, payload)

\* C12: Rate limiting gates every mutating RPC.  A step of createRoom,
\* joinRoom, approvePeer, signal or rejoinRoom changes the registry or emits
\* an event only when a rate limiter was asked for that request and answered
\* true, and a request a limiter refuses changes nothing and emits nothing.
C12_RateLimitGates ==
    [][/\ (/\ call'.op \in MutatingRpcs
           /\ \/ rooms' # rooms
              \/ socketToRoom' # socketToRoom
              \/ roomsPerIp' # roomsPerIp
              \/ emitted' # EmptyBag) => AllowedByLimiter
       /\ RefusedByLimiter =>
              /\ UNCHANGED <<rooms, socketToRoom, roomsPerIp>>
              /\ emitted' = EmptyBag]_vars

-----------------------------------------------------------------------------
\* The socket's index entry says it hosts the room `code`, which exists: what
\* approvePeer requires of its caller
IsHostOf(socket, code) ==
    /\ socket \in DOMAIN socketToRoom
    /\ socketToRoom[socket] = [code |-> code, isHost |-> TRUE]
    /\ code \in DOMAIN rooms

\* C13: Deny transition.  approvePeer(P, false) by the host of a room on a
\* peer P that is pending in it removes P from pendingPeers and leaves
\* approvedPeers as it was, removes P's index entry, emits peer:denied to P
\* exactly once (and nothing else) and returns {success, denied: true}; the
\* call closes no socket, and a signal P sends next returns 'Not in a room'
\* and emits nothing.
C13_DenyTransition ==
    [][\A host \in Conns, P \in Conns, code \in DOMAIN rooms :
        (/\ call' = Call("approvePeer", host)
         /\ IsHostOf(host, code)
         /\ P \in Pending(code)
         /\ ApprovePeer(host, P, "false")) =>
            /\ DOMAIN rooms'[code].pendingPeers = Pending(code) \ {P}
            /\ rooms'[code].approvedPeers = rooms[code].approvedPeers
            /\ P \notin DOMAIN socketToRoom'
            /\ emitted' = Emit(PeerDenied(P))
            /\ Received(P, "peer:denied")' = 1
            /\ reply' = [NoReply EXCEPT !.success = TRUE, !.denied = TRUE]
            /\ sockets' = sockets
            /\ \A to \in Conns :
                  /\ method_signal(P, TRUE, to, "sdp")'.reply = Error("Not in a room")
                  /\ method_signal(P, TRUE, to, "sdp")'.emitted = EmptyBag]_vars

\* The host of a room has just denied a pending peer, whose socket is open
\* and has no index entry.
C13_Witness ==
    /\ call.op = "approvePeer"
    /\ reply.success /\ reply.denied
    /\ \E P \in Conns :
          /\ emitted = Emit(PeerDenied(P))
          /\ sockets[P] = "open"
          /\ P \notin DOMAIN socketToRoom
          /\ IsHostOf(call.socket, socketToRoom[call.socket].code)
          /\ P \notin Members(socketToRoom[call.socket].code)

-----------------------------------------------------------------------------
\* C14: Approve transition.  approvePeer(P, true) by the host of a room on a
\* peer P that is pending in it moves P's entry, with its name, from
\* pendingPeers to approvedPeers, emits peer:approved carrying the room's
\* hostId to P exactly once (and nothing else), keeps P's index entry and
\* returns {success}; from then on P is authorized to signal (its signal to
\* the host is delivered) and is a valid target (the host's signal to it is
\* delivered).
C14_ApproveTransition ==
    [][\A host \in Conns, P \in Conns, code \in DOMAIN rooms :
        (/\ call' = Call("approvePeer", host)
         /\ IsHostOf(host, code)
         /\ P \in Pending(code)
         /\ ApprovePeer(host, P, "true")) =>
            /\ DOMAIN rooms'[code].pendingPeers = Pending(code) \ {P}
            /\ rooms'[code].approvedPeers =
                  MapSet(rooms[code].approvedPeers, P, rooms[code].pendingPeers[P])
            /\ emitted' = Emit(PeerApproved(P, rooms[code].hostId))
            /\ Received(P, "peer:approved")' = 1
            /\ socketToRoom' = socketToRoom
            /\ reply' = [NoReply EXCEPT !.success = TRUE]
            /\ method_signal(P, TRUE, rooms[code].hostId, "sdp")'.emitted
                  = Emit(Signal(rooms[code].hostId, P, "sdp"))
            /\ method_signal(rooms[code].hostId, TRUE, P, "sdp")'.emitted
                  = Emit(Signal(P, rooms[code].hostId, "sdp"))]_vars

-----------------------------------------------------------------------------
\* C15: Join success.  A joinRoom by `socket` with a code that names a room
\* (its limiter allowing it and the room's pending cap not reached) inserts
\* the socket's id with the name into that room's pendingPeers and changes
\* nothing else of any room, records the index entry {code, isHost: false}
\* for the socket, emits exactly one peer:request {peerId, name}, to the
\* room's host socket, and returns success with peerId = the socket's id and
\* hostConnected = whether the host socket is connected.
C15_JoinSuccess ==
    [][\A socket \in Conns :
        call' = Call("joinRoom", socket) =>
        \A input \in InputCodes :
        LET code == NormalizedCode[input]
            name == NameOrAnonymous(clientName(socket))
        IN (/\ code \in DOMAIN rooms
            /\ Cardinality(Pending(code)) < maxPendingPerRoom
            /\ JoinRoom(socket, TRUE, input, clientName(socket))) =>
               /\ rooms' = [rooms EXCEPT ![code].pendingPeers =
                                MapSet(rooms[code].pendingPeers, socket, name)]
               /\ socketToRoom' =
                     MapSet(socketToRoom, socket, [code |-> code, isHost |-> FALSE])
               /\ emitted' = Emit(PeerRequest(rooms[code].hostId, socket, name))
               /\ Received(rooms[code].hostId, "peer:request")' = 1
               /\ reply' = [NoReply EXCEPT
                               !.success = TRUE, !.peerId = socket, !.iceServers = TRUE,
                               !.hostConnected = (sockets[rooms[code].hostId] = "open")]]_vars

\* A socket has just joined a room whose host is another, connected socket,
\* which was sent the peer:request.
C15_Witness ==
    /\ call.op = "joinRoom"
    /\ reply.success /\ reply.peerId = call.socket /\ reply.hostConnected
    /\ call.socket \in DOMAIN socketToRoom
    /\ ~socketToRoom[call.socket].isHost
    /\ socketToRoom[call.socket].code \in DOMAIN rooms
    /\ call.socket \in Pending(socketToRoom[call.socket].code)
    /\ rooms[socketToRoom[call.socket].code].hostId # call.socket
    /\ Received(rooms[socketToRoom[call.socket].code].hostId, "peer:request") = 1

-----------------------------------------------------------------------------
\* C16: One room per connection.  A createRoom or a joinRoom by a socket that
\* already has an index entry fails (with ALREADY_IN_ROOM; here: with any
\* error) and leaves rooms, the index and every membership unchanged.
C16_OneRoomPerConnection ==
    [][\A socket \in DOMAIN socketToRoom :
        (call' = Call("createRoom", socket) \/ call' = Call("joinRoom", socket)) =>
            /\ reply'.error # ""
            /\ UNCHANGED <<rooms, socketToRoom>>
            /\ emitted' = EmptyBag]_vars

-----------------------------------------------------------------------------
\* C17: approvePeer error outcomes.  An approvePeer by a socket that has no
\* index entry, or whose entry says isHost: false, returns 'Not a host'; an
\* approvePeer by the host of a room that names a peer id that is not a key
\* of the room's pendingPeers returns 'Peer not found in pending'; in both
\* cases no room, no index entry and no membership changes, and nothing is
\* emitted.
C17_ApprovePeerErrors ==
    [][\A caller \in Conns :
        call' = Call("approvePeer", caller) =>
           /\ (caller \notin DOMAIN socketToRoom \/ ~socketToRoom[caller].isHost) =>
                 /\ reply' = Error("Not a host")
                 /\ UNCHANGED <<rooms, socketToRoom, roomsPerIp>>
                 /\ emitted' = EmptyBag
           /\ \A code \in DOMAIN rooms :
                 IsHostOf(caller, code) =>
                    \A peerId \in Conns \ Pending(code), approved \in ApprovedInputs :
                       ApprovePeer(caller, peerId, approved) =>
                          /\ reply' = Error("Peer not found in pending")
                          /\ UNCHANGED <<rooms, socketToRoom, roomsPerIp>>
                          /\ emitted' = EmptyBag]_vars

\* The host of a room that has an approved peer and no pending one has just
\* been told 'Peer not found in pending'.
C17_Witness ==
    /\ call.op = "approvePeer"
    /\ reply = Error("Peer not found in pending")
    /\ emitted = EmptyBag
    /\ \E code \in DOMAIN rooms :
          /\ IsHostOf(call.socket, code)
          /\ Approved(code) # {}
          /\ Pending(code) = {}

-----------------------------------------------------------------------------
\* C18: Opaque relay.  Every successful signal(from, to, payload) emits
\* exactly one event: a `signal` to the target socket, carrying from = the
\* sender's id and the payload as supplied; it changes no room and no index
\* entry.  This holds from an approved peer to the host and from the host to
\* an approved peer.
C18_OpaqueRelay ==
    [][\A from \in Conns :
        call' = Call("signal", from) =>
        \A to \in Conns, payload \in Payloads :
            (reply'.success /\ SignalRpc(from, TRUE, to, payload)) =>
               /\ emitted' = Emit(Signal(to, from, payload))
               /\ Received(to, "signal")' = 1
               /\ \A c \in Conns \ {to} : Received(c, "signal")' = 0
               /\ UNCHANGED <<rooms, socketToRoom, roomsPerIp>>]_vars

\* An approved peer has just signalled the host of its room, or the host an
\* approved peer of its room, and the event was sent.
C18_Witness ==
    /\ call.op = "signal"
    /\ reply.success
    /\ \E e \in BagToSet(emitted), code \in DOMAIN rooms :
          /\ e.event = "signal" /\ e.from = call.socket /\ e.to # e.from
          /\ e.payload \in Payloads
          /\ CopiesIn(e, emitted) = 1
          /\ {e.from, e.to} \subseteq HostOrApproved(code)
          /\ rooms[code].hostId \in {e.from, e.to}

-----------------------------------------------------------------------------
\* The methods of `methods`
RpcMethods ==
    {"createRoom", "joinRoom", "rejoinRoom", "approvePeer", "signal", "getIceServers"}

\* C19: Idle timer reset.  Every inbound RPC on a socket (createRoom,
\* joinRoom, rejoinRoom, approvePeer, signal, getIceServers) re-arms the
\* socket's idle timer with the whole idleTimeoutMs, so the timer disconnects
\* a socket only when no RPC arrived on it during the preceding idleTimeoutMs.
C19_IdleTimerReset ==
    [][\A socket \in Conns :
        /\ (steps' = steps + 1 /\ call'.socket = socket /\ call'.op \in RpcMethods) =>
               idleTimer'[socket] = idleTimeoutMs
        /\ (sockets[socket] = "open" /\ IdleTimeout(socket)) =>
               sinceRpc[socket] = idleTimeoutMs]_vars

-----------------------------------------------------------------------------
\* The key has a bucket whose window has not expired
LiveBucket(key) == key \in DOMAIN requests /\ ~(now > requests[key].resetTime)

\* C21: isAllowed follows the fixed-window rule as a transition function.
\* If the key has no bucket or now > resetTime, the bucket becomes
\* {count 1, resetTime now + windowMs} and the call returns true; otherwise
\* if count >= maxRequests it returns false and leaves the bucket unchanged;
\* otherwise it increments count, keeps resetTime and returns true.  Hence a
\* bucket's count always stays within 1..maxRequests, and within a live
\* window the count is the number of calls allowed since the window opened.
C21_IsAllowedTransition ==
    /\ [][\A key \in Keys : IsAllowed(key) =>
             /\ limiterRet'.op = "isAllowed" /\ limiterRet'.key = key
             /\ key \in DOMAIN requests'
             /\ IF ~LiveBucket(key)
                THEN /\ requests'[key] = [count |-> 1, resetTime |-> now + windowMs]
                     /\ limiterRet'.allowed
                ELSE IF requests[key].count >= maxRequests
                THEN /\ requests'[key] = requests[key]
                     /\ ~limiterRet'.allowed
                ELSE /\ requests'[key] = [count |-> requests[key].count + 1,
                                          resetTime |-> requests[key].resetTime]
                     /\ limiterRet'.allowed]_vars
    /\ [](\A key \in DOMAIN requests :
             /\ requests[key].count \in 1..maxRequests
             /\ GrantsIn(key, requests[key].resetTime - windowMs, requests[key].resetTime)
                    = requests[key].count)

\* A key is refused in its second window: it used up a window, was allowed
\* again once that window expired, and used up the new one.
C21_Witness ==
    \E key \in Keys :
        /\ limiterRet = LimiterCall("isAllowed", key, FALSE, 0)
        /\ Len(granted[key]) = 2 * maxRequests
        /\ requests[key].count = maxRequests

-----------------------------------------------------------------------------
-----------------------------------------------------------------------------
\* C23: getRemainingRequests(key) returns maxRequests when the key has no
\* bucket or its window has expired, otherwise max(0, maxRequests - count);
\* it never modifies any bucket; and at any instant it returns a value
\* greater than 0 exactly when an isAllowed(key) call at that same instant
\* would return true.
C23_RemainingRequests ==
    /\ [][\A key \in Keys : GetRemainingRequests(key) =>
             /\ limiterRet'.op = "getRemainingRequests" /\ limiterRet'.key = key
             /\ requests' = requests
             /\ limiterRet'.remaining =
                    IF ~LiveBucket(key) THEN maxRequests
                    ELSE IF requests[key].count < maxRequests
                    THEN maxRequests - requests[key].count
                    ELSE 0
             /\ (limiterRet'.remaining > 0) = isAllowed(key).ret]_vars
    /\ [](\A key \in Keys : (getRemainingRequests(key).ret > 0) = isAllowed(key).ret)

\* getRemainingRequests has just answered 0 for a key whose window is used
\* up, and answers maxRequests for another key whose window has expired.
C23_Witness ==
    \E key \in Keys : \E other \in Keys \ {key} :
        /\ limiterRet = LimiterCall("getRemainingRequests", key, FALSE, 0)
        /\ LiveBucket(key)
        /\ ~isAllowed(key).ret
        /\ other \in DOMAIN requests
        /\ now > requests[other].resetTime
        /\ requests[other].count = maxRequests
        /\ getRemainingRequests(other).ret = maxRequests

-----------------------------------------------------------------------------
\* The buckets of map m whose window has not expired
Unexpired(m) == {key \in DOMAIN m : ~(now > m[key].resetTime)}
LiveBuckets(m) == [key \in Unexpired(m) |-> m[key]]

\* C24: cleanup() deletes exactly the buckets whose window has expired and
\* leaves every unexpired bucket untouched; therefore running cleanup never
\* changes the result of a later isAllowed or getRemainingRequests call: for
\* every key both calls answer after cleanup what they answered before it
\* (maxRequests remaining for an expired key), and isAllowed leaves the same
\* unexpired buckets whether or not cleanup ran first.
C24_CleanupFrame ==
    [][Cleanup =>
          /\ DOMAIN requests' = Unexpired(requests)
          /\ \A key \in Unexpired(requests) : requests'[key] = requests[key]
          /\ \A key \in Keys :
                /\ isAllowed(key)'.ret = isAllowed(key).ret
                /\ getRemainingRequests(key)'.ret = getRemainingRequests(key).ret
                /\ (key \in DOMAIN requests \ Unexpired(requests)) =>
                       getRemainingRequests(key)'.ret = maxRequests
                /\ LiveBuckets(isAllowed(key).requests)' = LiveBuckets(isAllowed(key).requests)
         ]_vars

\* cleanup has just deleted the expired bucket of one key and kept the
\* unexpired, used-up bucket of another.
C24_Witness ==
    \E key \in Keys : \E other \in Keys \ {key} :
        /\ limiterRet = LimiterCall("cleanup", None, FALSE, 0)
        /\ Len(granted[key]) > 0
        /\ key \notin DOMAIN requests
        /\ LiveBucket(other)
        /\ requests[other].count = maxRequests

-----------------------------------------------------------------------------
\* The entry of the room `code` in a snapshot
EntriesOf(view, code) == {i \in DOMAIN view.rooms : view.rooms[i].code = code}

RECURSIVE SumOver(_, _, _)
SumOver(all, codes, field) ==
    IF codes = {} THEN 0
    ELSE LET code == CHOOSE c \in codes : TRUE
         IN  Cardinality(DOMAIN all[code][field]) + SumOver(all, codes \ {code}, field)

\* C25: Admin snapshot.  Producing the admin view changes no registry state,
\* and the snapshot contains exactly one entry per room currently in the
\* registry, with pendingCount the size of that room's pending map and
\* approvedCount the size of its approved map, and totalRooms, totalPending
\* and totalApproved the number of rooms and the sums of those counts at that
\* instant.
C25_AdminSnapshot ==
    [][AdminStats =>
          /\ UNCHANGED <<rooms, socketToRoom, roomsPerIp>>
          /\ \A i \in DOMAIN adminView'.rooms : adminView'.rooms[i].code \in DOMAIN rooms
          /\ \A code \in DOMAIN rooms :
                /\ Cardinality(EntriesOf(adminView', code)) = 1
                /\ \A i \in EntriesOf(adminView', code) :
                      /\ adminView'.rooms[i].pendingCount = Cardinality(Pending(code))
                      /\ adminView'.rooms[i].approvedCount = Cardinality(Approved(code))
          /\ adminView'.totalRooms = Cardinality(DOMAIN rooms)
          /\ adminView'.totalPending = SumOver(rooms, DOMAIN rooms, "pendingPeers")
          /\ adminView'.totalApproved = SumOver(rooms, DOMAIN rooms, "approvedPeers")]_vars

-----------------------------------------------------------------------------
\* s is the code c written with any mix of upper and lower case letters
CaseVariant(s, c) ==
    /\ Len(s) = Len(c)
    /\ \A i \in DOMAIN c :
          \/ s[i] = c[i]
          \/ \E k \in DOMAIN LowerSeq : c[i] = LowerSeq[k] /\ s[i] = UpperSeq[k]

\* C26: Codes are case-insensitive and round-trip.  For every code c that
\* generateCode can produce, written as it is or with any mix of upper and
\* lower case letters, normalizeCode gives c and validateCode is true; so
\* joinRoom, carrying the code in any letter case, finds it valid and asks the
\* registry for c, the key of the room createRoom issued it for.
C26_CaseInsensitive ==
    \A c \in GeneratedCodes :
        CaseVariant(codeCall.input, c) =>
            /\ codeCall.op = "normalizeCode" => codeCall.output = c
            /\ codeCall.op = "validateCode" => codeCall.valid
            /\ codeCall.op = "joinRoom" => codeCall.valid /\ codeCall.output = c

\* joinRoom has resolved a generated code written in mixed case, neither as
\* issued nor all in upper case.
C26_Witness ==
    /\ codeCall.op = "joinRoom"
    /\ codeCall.valid
    /\ \E c \in GeneratedCodes :
          /\ CaseVariant(codeCall.input, c)
          /\ codeCall.input \notin {c, UpperCase(c)}
          /\ codeCall.output = c

-----------------------------------------------------------------------------
\* The reference normalization: lowercase, each run of whitespace collapsed to
\* one hyphen, leading and trailing hyphens and whitespace trimmed, and no
\* other character changed
RECURSIVE TrimHyphensLeft(_)
TrimHyphensLeft(s) ==
    IF s # <<>> /\ Head(s) \in Spaces \cup {"-"} THEN TrimHyphensLeft(Tail(s)) ELSE s

RECURSIVE TrimHyphensRight(_)
TrimHyphensRight(s) ==
    IF s # <<>> /\ s[Len(s)] \in Spaces \cup {"-"}
    THEN TrimHyphensRight(SubSeq(s, 1, Len(s) - 1))
    ELSE s

ReferenceNormalize(s) == TrimHyphensRight(TrimHyphensLeft(ReplaceSpaces(ToLowerCase(s))))

\* C27: normalizeCode equals the reference normalization for every input:
\* lowercase the input, collapse each run of whitespace to a single hyphen,
\* and trim leading and trailing hyphens and whitespace, with no other
\* character changed (no substitution of 0, 1, i, l or o); in particular a
\* canonical code surrounded by spaces normalizes to the canonical code, and
\* a code whose groups are separated by spaces normalizes to the hyphenated
\* code.
C27_ReferenceNormalization ==
    codeCall.op = "normalizeCode" =>
        /\ codeCall.output = ReferenceNormalize(codeCall.input)
        /\ \A c \in GeneratedCodes :
              codeCall.input \in {Padded(c), SpacedGroups(c)} => codeCall.output = c

-----------------------------------------------------------------------------
\* The 31-symbol alphabet: a-z without i, l, o, and the digits 2-9
SafeAlphabet == (Lowers \ {"i", "l", "o"}) \cup (Digits \ {"0", "1"})

\* Three groups of three characters of the alphabet, separated by hyphens
SafeShape(c) ==
    /\ Len(c) = 11
    /\ \A i \in 1..11 : IF i \in {4, 8} THEN c[i] = "-" ELSE c[i] \in SafeAlphabet
    /\ \A i \in 1..11 : c[i] \notin {"0", "1", "i", "l", "o"}

\* C28: Code shape.  Every code produced by generateCode, and hence every
\* code returned by createRoom, consists of three groups of three characters
\* separated by hyphens, each character drawn from the 31-symbol alphabet a-z
\* without i, l, o plus the digits 2-9; it never contains 0, 1, i, l or o.
C28_CodeShape ==
    /\ Cardinality(SafeAlphabet) = 31
    /\ Range(CHARS) = SafeAlphabet
    /\ codeCall.op = "generateCode" => SafeShape(codeCall.output)
    /\ \A c \in GenCodes : SafeShape(c)

\* generateCode has drawn the last symbol of CHARS, then its first.
C28_Witness ==
    /\ codeCall.op = "generateCode"
    /\ codeCall.floors[1] = Len(CHARS) - 1
    /\ codeCall.floors[2] = 0
    /\ SubSeq(codeCall.output, 1, 4) = <<"9", "a", "b", "-">>

-----------------------------------------------------------------------------
\* C29: No room outlives its host.  In every reachable state, each room in
\* the registry has a host connection that has not disconnected and whose
\* connection-index entry is {that room's code, role HOST}; so the disconnect
\* of a connection always removes every room it hosts.
C29_NoRoomOutlivesHost ==
    \A code \in DOMAIN rooms :
        LET host == rooms[code].hostId
        IN  /\ sockets[host] = "open"
            /\ host \in DOMAIN socketToRoom
            /\ socketToRoom[host] = [code |-> code, isHost |-> TRUE]

-----------------------------------------------------------------------------
\* C30: A room is destroyed only by its current host's departure.  A room is
\* removed from the registry, and its peers sent host:disconnected, only when
\* the disconnecting socket's id equals the room's current hostId; the
\* disconnect of any other socket, including a former host that was replaced
\* through rejoinRoom(isHost = true), leaves the room, its host and its
\* approved peers (but for the socket that left) in place.
C30_OnlyCurrentHostDestroys ==
    [][/\ \A code \in DOMAIN rooms :
            /\ code \notin DOMAIN rooms' =>
                  call' = Call("disconnect", rooms[code].hostId)
            /\ (call'.op = "disconnect" /\ call'.socket # rooms[code].hostId) =>
                  /\ code \in DOMAIN rooms'
                  /\ rooms'[code].hostId = rooms[code].hostId
                  /\ DOMAIN rooms'[code].approvedPeers = Approved(code) \ {call'.socket}
       /\ \A e \in BagToSet(emitted') : e.event = "host:disconnected" =>
            \E code \in DOMAIN rooms :
                /\ call' = Call("disconnect", rooms[code].hostId)
                /\ e.to \in Pending(code) \cup Approved(code)]_vars

-----------------------------------------------------------------------------
\* roomsPerIp[ip], 0 when the key is absent
IpCount(perIp, ip) == IF ip \in DOMAIN perIp THEN perIp[ip] ELSE 0

\* The rooms of registry r whose host is a socket from ip
RoomsHostedFrom(r, ip) == {code \in DOMAIN r : clientIp(r[code].hostId) = ip}

\* C31: IP ownership counter accuracy.  In every reachable state, for every
\* remote IP, roomsPerIp[ip] (0 when the key is absent) equals the number of
\* rooms in the registry hosted by a socket from that IP; it is incremented
\* only when a room is created and decremented only when a room hosted from
\* that IP is destroyed, by exactly one per room.
C31_IpCounterAccurate ==
    /\ [](\A ip \in Ips :
             IpCount(roomsPerIp, ip) = Cardinality(RoomsHostedFrom(rooms, ip)))
    /\ [][\A ip \in Ips :
             LET before == IpCount(roomsPerIp, ip)
                 after == IpCount(roomsPerIp', ip)
                 created == RoomsHostedFrom(rooms', ip) \ DOMAIN rooms
                 destroyed == RoomsHostedFrom(rooms, ip) \ DOMAIN rooms'
             IN  /\ after > before =>
                       /\ call'.op = "createRoom"
                       /\ after - before = Cardinality(created)
                 /\ after < before => before - after = Cardinality(destroyed)
                 /\ after = before => (created = {} /\ destroyed = {})]_vars

-----------------------------------------------------------------------------
\* C32: Disconnect always clears the index.  After the disconnect of any
\* socket has been handled, socketToRoom holds no entry for that socket's id,
\* whatever the socket's role and whether or not the room its entry named
\* still exists; the disconnect of a socket with no index entry changes
\* nothing and emits nothing.
C32_DisconnectClearsIndex ==
    [][\A socket \in Conns : call' = Call("disconnect", socket) =>
          /\ socket \notin DOMAIN socketToRoom'
          /\ socket \notin DOMAIN socketToRoom =>
                /\ UNCHANGED <<rooms, socketToRoom, roomsPerIp>>
                /\ emitted' = EmptyBag]_vars

-----------------------------------------------------------------------------
\* The socket's index entry names an existing room and says isHost: false
IsPeerOf(socket, code) ==
    /\ socket \in DOMAIN socketToRoom
    /\ socketToRoom[socket] = [code |-> code, isHost |-> FALSE]
    /\ code \in DOMAIN rooms

\* C33: Peer departure is clean.  Once the disconnect of a socket whose
\* index entry is a peer entry of a room has been handled, the socket is a
\* key of no room's pendingPeers or approvedPeers, the room's host has been
\* sent peer:disconnected with the socket's id (and nothing else is
\* emitted), the room keeps its host and its other pending and approved
\* peers; an approvePeer for it by the room's host then returns 'Peer not
\* found in pending' and a signal to it by the host or an approved peer of
\* the room (whose index entry names the room) returns 'Target not found'.
C33_PeerDepartureClean ==
    [][\A socket \in Conns : call' = Call("disconnect", socket) =>
          \A code \in DOMAIN rooms : IsPeerOf(socket, code) =>
             /\ \A c \in DOMAIN rooms' :
                   socket \notin DOMAIN rooms'[c].pendingPeers
                                   \cup DOMAIN rooms'[c].approvedPeers
             /\ emitted' = Emit(PeerDisconnected(rooms[code].hostId, socket))
             /\ DOMAIN rooms' = DOMAIN rooms
             /\ rooms'[code] =
                   [rooms[code] EXCEPT
                      !.pendingPeers = MapDelete(rooms[code].pendingPeers, socket),
                      !.approvedPeers = MapDelete(rooms[code].approvedPeers, socket)]
             /\ \A host \in Conns, approved \in ApprovedInputs :
                   (IsHostOf(host, code)' /\ host = rooms'[code].hostId) =>
                      method_approvePeer(host, socket, approved)'.reply
                          = Error("Peer not found in pending")
             /\ \A from \in Conns :
                   (/\ from \in DOMAIN socketToRoom'
                    /\ socketToRoom'[from].code = code
                    /\ from \in HostOrApproved(code)') =>
                      method_signal(from, TRUE, socket, "sdp")'.reply
                          = Error("Target not found")]_vars

-----------------------------------------------------------------------------
\* The error messages of the RPC methods
ErrorMessages ==
    {"Too many rooms created. Please try again later.",
     "Maximum N rooms per IP reached.",
     "Too many join attempts. Please try again later.",
     "Invalid code format",
     "Room has too many pending requests. Please try again later.",
     "Room not found", "Not a host", "Peer not found in pending",
     "Too many signals. Please slow down.", "Payload too large.",
     "Not in a room", "Not authorized to signal", "Target not found"}

\* C34: Errors leave state unchanged.  Every RPC that replies with an
\* {error: ...} object leaves rooms (hosts and memberships), the socket
\* index and the per-IP room counts exactly as they were and emits no event
\* to any socket; its error is one of the methods' messages; and a joinRoom
\* that is let through with a well-formed code that names no room replies
\* 'Room not found'.
C34_ErrorsLeaveStateUnchanged ==
    [][/\ reply'.error # "" =>
             /\ UNCHANGED <<rooms, socketToRoom, roomsPerIp>>
             /\ emitted' = EmptyBag
             /\ reply'.error \in ErrorMessages
             /\ reply' = Error(reply'.error)
       /\ \A socket \in Conns : call' = Call("joinRoom", socket) =>
             \A code \in InputCodes :
                (/\ ValidCode[NormalizedCode[code]]
                 /\ NormalizedCode[code] \notin DOMAIN rooms
                 /\ JoinRoom(socket, TRUE, code, clientName(socket))) =>
                    reply' = Error("Room not found")]_vars

\* A joinRoom has just been told 'Room not found' while another room, with
\* a pending peer, exists.
C34_Witness ==
    /\ call.op = "joinRoom"
    /\ reply = Error("Room not found")
    /\ emitted = EmptyBag
    /\ \E code \in DOMAIN rooms : Pending(code) # {}

-----------------------------------------------------------------------------
\* The operations that are carried out on a room
RoomOperations == {"joinRoom", "rejoinRoom", "approvePeer", "signal", "disconnect"}

\* The step left every room but R, and every index entry that names another
\* room than R, as it was, and emitted only to sockets that are (or were)
\* host, pending or approved in R
ConfinedTo(R) ==
    /\ \A other \in DOMAIN rooms \ {R} :
          other \in DOMAIN rooms' /\ rooms'[other] = rooms[other]
    /\ \A c \in DOMAIN socketToRoom :
          socketToRoom[c].code # R =>
             c \in DOMAIN socketToRoom' /\ socketToRoom'[c] = socketToRoom[c]
    /\ \A e \in BagToSet(emitted') :
          \/ e.to \in Members(R)
          \/ R \in DOMAIN rooms' /\ e.to \in Members(R)'

\* C35: Rooms are isolated from one another.  A join, approve or deny,
\* signal, rejoin or disconnect that changes the registry or emits an event
\* is confined to one room: it changes neither the host, pending or
\* approved of any other room nor the index entry of any socket whose entry
\* names another room, and it emits events only to sockets that are host,
\* pending or approved in that room.
C35_RoomsIsolated ==
    [][(/\ call'.op \in RoomOperations
        /\ \/ rooms' # rooms
           \/ socketToRoom' # socketToRoom
           \/ emitted' # EmptyBag) =>
          \E R \in DOMAIN rooms : ConfinedTo(R)]_vars

-----------------------------------------------------------------------------
\* C36: Admission ordering.  For every peer P and room, a peer:approved for
\* P is emitted only after a peer:request for P has been emitted for that
\* room, and a `signal` event with from = P or with P as its target is
\* emitted in the room only after a peer:approved for P: no signal event
\* involves a socket that has asked to join the room and has not been
\* approved in it.
C36_AdmissionOrdering ==
    [][\A socket \in Conns :
          (call'.socket = socket /\ socket \in DOMAIN socketToRoom) =>
             LET code == socketToRoom[socket].code IN
             /\ \A e \in EventsNamed("peer:approved") :
                   <<e.to, code>> \in admission.requested
             /\ \A e \in EventsNamed("signal") :
                   \A P \in {e.from, e.to} :
                      <<P, code>> \in admission.requested =>
                         <<P, code>> \in admission.approved]_vars

-----------------------------------------------------------------------------
\* C37: Peer rejoin needs fresh approval.  A rejoinRoom with isHost: false
\* for a code that names a room does to the registry exactly what joinRoom
\* does: the caller is a key of the room's pendingPeers and not of its
\* approvedPeers, the room's host is sent a peer:request for it, and every
\* signal the caller then sends is refused and emits nothing (until the
\* host approves it again).
C37_PeerRejoinNeedsApproval ==
    [][\A socket \in Conns : call' = Call("rejoinRoom", socket) =>
          \A input \in InputCodes :
             LET code == NormalizedCode[input]
                 name == NameOrAnonymous(clientName(socket))
             IN (/\ code \in DOMAIN rooms
                 /\ RejoinRoom(socket, input, FALSE, clientName(socket))) =>
                   /\ rooms' = joinRoom(socket, code, name).rooms
                   /\ socketToRoom' = joinRoom(socket, code, name).socketToRoom
                   /\ reply' = joinRoom(socket, code, name).reply
                   /\ emitted' = Emit(PeerRequest(rooms[code].hostId, socket, name))
                   /\ socket \in Pending(code)'
                   /\ socket \notin Approved(code)'
                   /\ \A to \in Conns :
                         /\ ~method_signal(socket, TRUE, to, "sdp")'.reply.success
                         /\ method_signal(socket, TRUE, to, "sdp")'.emitted = EmptyBag]_vars

-----------------------------------------------------------------------------
\* C38: Fresh codes.  The createRoom that ends its loop returns the code it
\* drew last, which was not a key of `rooms` when it was called; it leaves
\* every existing room as it was and adds one room, with the caller as host
\* and empty pendingPeers and approvedPeers; the loop goes on only after a
\* draw of a code in use, which changes nothing, and ends with the first
\* draw of an unused code; and while an unused code exists the loop
\* eventually ends (draws being fair).
C38_FreshCodes ==
    /\ [][draw.socket # None =>
            /\ draw'.socket = None =>
                  /\ reply'.code = draw'.code
                  /\ reply'.code \notin DOMAIN rooms
                  /\ DOMAIN rooms' = DOMAIN rooms \cup {reply'.code}
                  /\ \A code \in DOMAIN rooms : rooms'[code] = rooms[code]
                  /\ rooms'[reply'.code].hostId = draw.socket
                  /\ rooms'[reply'.code].pendingPeers = EmptyMap
                  /\ rooms'[reply'.code].approvedPeers = EmptyMap
            /\ draw'.socket # None =>
                  /\ draw'.code \in DOMAIN rooms
                  /\ UNCHANGED <<rooms, socketToRoom, roomsPerIp>>
            /\ draw'.code \notin DOMAIN rooms => draw'.socket = None]_vars
    /\ (draw.socket # None /\ GenCodes \ DOMAIN rooms # {}) ~> (draw.socket = None)

\* A createRoom has just returned a fresh code after a draw it had to
\* repeat, next to a room that has a pending peer.
C38_Witness ==
    /\ call.op = "createRoom"
    /\ draw.socket = None
    /\ draw.redraws > 0
    /\ reply.code = draw.code
    /\ reply.code \in DOMAIN rooms
    /\ \E other \in DOMAIN rooms \ {reply.code} : Pending(other) # {}

=============================================================================
